---- MODULE Spec2Model ----
(***************************************************************************)
(* Model of video/out/hwdec/hwdec_vulkan.c (dmpv): the queue lock hooks,   *)
(* vulkan_init/vulkan_uninit, and the per-frame mapper_map/mapper_unmap    *)
(* protocol over a decoder-owned AVVkFrame.                                *)
(***************************************************************************)
EXTENDS Integers, Sequences, FiniteSets, TLC

\* ---------------------------------------------------------------- bounds
MaxSessions == 2
MaxFamilies == 5
NumThreads == 2
NumRenderers == 1
NumQueues == 2
\* Most reservations the other users of the frame make.
MaxOther == 1
\* Most Import/Export sessions run while the frame is shared.
MaxShared == 1

\* ------------------------------------------------------ program constants
NumSlots == 4
Idx == 0 .. (NumSlots - 1)

\* VkImageLayout values: 0 is VK_IMAGE_LAYOUT_UNDEFINED (the {0} initialiser
\* of new_layout[]); DecoderLayouts are what the decoder leaves in a frame;
\* HoldLayouts are the layouts pl_vulkan_hold_ex may report on success.
DecoderLayouts == {1}
HoldLayouts == {2}

\* Sizes of the decoder's frames context (hwfc->width/height) and the
\* mapper's nominal output size (mapper->dst_params.w/h).
NominalSize == << 1920, 1080 >>
PaddedSize == << 1920, 1088 >>
FrameCtxSizes == { NominalSize, PaddedSize }

VARIABLES
    \* ---- struct vulkan_mapper_priv / struct ra_hwdec_mapper
    num_planes,       \* p->layout.num_planes
    chroma_shift,     \* p->layout.fmt.xs[1] = ys[1] of the mapper's format
    src,              \* mapper->src != NULL
    hwfc_size,        \* <<hwfc->width, hwfc->height>> of mapper->src
    p_vkf,            \* p->vkf != NULL
    p_tex,            \* p->tex[i] != NULL
    mapper_tex,       \* mapper->tex[i] != NULL
    p_img,            \* p->img[i]   (0 is VK_NULL_HANDLE)
    p_img_layout,     \* p->img_layout[i]
    p_sem,            \* p->sem[i]   (0 is VK_NULL_HANDLE)
    p_sem_value,      \* p->sem_value[i]
    p_num_images,     \* p->num_images
    \* ---- the AVVkFrame behind mapper->src->planes[0]
    vkf_img, vkf_sem, vkf_sem_value, vkf_layout, vkf_access,
    frameLock,        \* holder of the frame's update mutex
    \* ---- locals of mapper_map / mapper_unmap and the control position
    pc, ret, i,
    will_process, reserved_sem_value, ok, new_layout, processed,
    \* ---- calls made to the collaborators during the current call
    lockCalls, unlockCalls, frameAccess, wrapCalls, holdCalls, freeCalls,
    frameOps,         \* the reads and writes of the AVVkFrame, in order
    \* ---- history
    sessions, prevOp, lastOp, pre_sem_value, pre_layout, pre_tex, pre_vkf,
    pre_access,
    \* ---- vulkan_init: what the platform reports (inputs)
    new_api,          \* LIBAVUTIL_VERSION_INT >= AV_VERSION_INT(59, 34, 100)
    env,              \* results of the calls vulkan_init makes
    qf,               \* the queue families of the physical device
    \* ---- vulkan_init: struct vulkan_hw_priv, AVVulkanDeviceContext, registry
    dev_pc,           \* "fresh", "inited", "uninited"
    init_ret,         \* value returned by vulkan_init
    hwctx_qf,         \* device_hwctx->qf[0 .. nb_qf-1]
    legacy,           \* the legacy queue_family_* / nb_* fields
    hooks,            \* device_hwctx->lock_queue/unlock_queue installed
    backend_inited,   \* av_hwdevice_ctx_init was called
    registry,         \* number of devices in hw->devs
    alloc,            \* allocation state of qf, qf_vid, hw_device_ctx, lock_ctx
    \* ---- queue_lock_ctx and the threads that use the queues
    mutex,            \* owner of lock_ctx->mutex (0: unlocked)
    queue_lock,       \* owner of each native queue lock (0: unlocked)
    tpc,              \* position of each thread
    tq,               \* the queue each thread is working on
    \* ---- the other users of the same AVVkFrame
    other_reserved,   \* <<image, value>>: counter values they have reserved
    reserve_log,      \* every reservation, in frame-lock acquisition order
    \* ---- mp_time_ns_to_realtime: a nanosecond count is << seconds, ns >>
    time_ns,          \* the argument
    time_now,         \* what mp_time_ns() returns
    realtime,         \* what get_realtime() returns and stores
    ts,               \* struct timespec ts: << tv_sec, tv_nsec >>
    time_pc           \* "called", "returned"

mapperVars == << num_planes, chroma_shift, src, hwfc_size, p_vkf, p_tex,
                 mapper_tex, p_img, p_img_layout, p_sem, p_sem_value,
                 p_num_images >>
frameVars == << vkf_img, vkf_sem, vkf_sem_value, vkf_layout, vkf_access,
                frameLock >>
localVars == << pc, ret, i, will_process, reserved_sem_value, ok,
                new_layout, processed >>
callVars == << lockCalls, unlockCalls, frameAccess, wrapCalls, holdCalls,
               freeCalls, frameOps >>
histVars == << sessions, prevOp, lastOp, pre_sem_value, pre_layout, pre_tex,
              pre_vkf, pre_access >>

sessionVars == << mapperVars, frameVars, localVars, callVars, histVars >>

AllFalse == [k \in Idx |-> FALSE]
AllZero == [k \in Idx |-> 0]

\* ------------------------------------------------------------ pure helpers

\* for (num_images = 0; num_images < 4 && vkf->img[num_images]; num_images++);
RECURSIVE CountImagesFrom(_, _)
CountImagesFrom(img, n) ==
    IF n < NumSlots /\ img[n] # 0 THEN CountImagesFrom(img, n + 1) ELSE n
CountImages(img) == CountImagesFrom(img, 0)

\* "If we have multiple planes and one image, then that is a multiplane
\* frame. Anything else is treated as one-image-per-plane."
SharedImage(planes, images) == planes > 1 /\ images = 1

ImportIndex_identity(planes, images, plane) == plane

ImportIndex(planes, images, plane) ==
    IF SharedImage(planes, images) THEN 0 ELSE plane

ExportIndex_more(planes, images, plane) ==
    IF planes > images THEN 0 ELSE plane

ExportIndex(planes, images, plane) ==
    IF planes > 1 /\ images = 1 THEN 0 ELSE plane

\* The switch over the plane number; "none" is the default: goto error.
ImportAspect(planes, images, plane) ==
    IF SharedImage(planes, images)
    THEN CASE plane = 0 -> "PLANE_0"
           [] plane = 1 -> "PLANE_1"
           [] plane = 2 -> "PLANE_2"
           [] OTHER -> "none"
    ELSE "COLOR"

\* mp_chroma_div_up(size, shift) = (size + (1 << shift) - 1) >> shift
ChromaDivUp(size, shift) == (size + (2 ^ shift) - 1) \div (2 ^ shift)

\* Planes 1 and 2 are the subsampled chroma planes; 0 (luma) and 3 (alpha)
\* have shift 0.
PlaneShift(shift, plane) == IF plane \in {1, 2} THEN shift ELSE 0
mp_image_plane_w(size, shift, plane) == ChromaDivUp(size[1], PlaneShift(shift, plane))
mp_image_plane_h(size, shift, plane) == ChromaDivUp(size[2], PlaneShift(shift, plane))

RawLayoutSize_nominal(hwfc, nominal) == nominal

\* mp_image_set_size(&raw_layout, hwfc->width, hwfc->height)
RawLayoutSize(hwfc, nominal) == hwfc


\* ------------------------------------------------------- session: initial

SessionInit ==
    /\ num_planes \in 1 .. NumSlots
    /\ chroma_shift \in (IF num_planes > 1 THEN {0, 1} ELSE {0})
    /\ src = FALSE
    /\ hwfc_size = NominalSize
    /\ p_vkf = FALSE
    /\ p_tex = AllFalse
    /\ mapper_tex = AllFalse
    /\ p_img = AllZero
    /\ p_img_layout = AllZero
    /\ p_sem = AllZero
    /\ p_sem_value = AllZero
    /\ p_num_images = 0
    /\ \E images \in 1 .. NumSlots :
          /\ vkf_img = [k \in Idx |-> IF k < images THEN k + 1 ELSE 0]
          /\ vkf_sem = [k \in Idx |-> IF k < images THEN k + 1 ELSE 0]
          /\ \E l \in DecoderLayouts :
                vkf_layout = [k \in Idx |-> IF k < images THEN l ELSE 0]
          /\ vkf_access = [k \in Idx |-> IF k < images THEN 1 ELSE 0]
    /\ vkf_sem_value = AllZero
    /\ frameLock = "free"
    /\ pc = "idle"
    /\ ret = "none"
    /\ i = 0
    /\ will_process = AllFalse
    /\ reserved_sem_value = AllZero
    /\ ok = AllFalse
    /\ new_layout = AllZero
    /\ processed = AllFalse
    /\ lockCalls = 0
    /\ unlockCalls = 0
    /\ frameAccess = FALSE
    /\ frameOps = << >>
    /\ wrapCalls = << >>
    /\ holdCalls = << >>
    /\ freeCalls = 0
    /\ sessions = 0
    /\ prevOp = "none"
    /\ lastOp = "none"
    /\ pre_sem_value = AllZero
    /\ pre_layout = AllZero
    /\ pre_tex = AllFalse
    /\ pre_vkf = FALSE
    /\ pre_access = AllZero

\* One access to the fields of the AVVkFrame: which block made it, whether
\* the frame lock was held, and how many lock/unlock calls preceded it.
FrameOp(op) ==
    [ op |-> op,
      locked |-> (frameLock = "mapper"),
      locks |-> lockCalls,
      unlocks |-> unlockCalls,
      before |-> vkf_sem_value ]

ResetCalls ==
    /\ lockCalls' = 0
    /\ unlockCalls' = 0
    /\ frameAccess' = FALSE
    /\ frameOps' = << >>
    /\ wrapCalls' = << >>
    /\ holdCalls' = << >>
    /\ freeCalls' = 0

ResetLocals ==
    /\ i' = 0
    /\ will_process' = AllFalse
    /\ reserved_sem_value' = AllZero
    /\ ok' = AllFalse
    /\ new_layout' = AllZero
    /\ processed' = AllFalse

Snapshot ==
    /\ pre_sem_value' = vkf_sem_value
    /\ pre_layout' = vkf_layout
    /\ pre_tex' = p_tex
    /\ pre_vkf' = p_vkf
    /\ pre_access' = vkf_access

\* ------------------------------------------------------------ mapper_map

\* The caller stores the source image in mapper->src and calls mapper_map;
\* pl_vulkan_get() may return NULL, in which case mapper_map returns -1.
MapCall ==
    /\ pc = "idle"
    /\ sessions < MaxSessions
    /\ lastOp \in {"none", "unmap"}
    /\ ~p_vkf
    /\ \E size \in FrameCtxSizes, vk \in BOOLEAN :
          /\ hwfc_size' = size
          /\ IF vk
             THEN /\ pc' = "map_lock"
                  /\ ret' = "map"
                  /\ UNCHANGED << prevOp, lastOp >>
             ELSE /\ pc' = "idle"
                  /\ ret' = "none"
                  /\ prevOp' = lastOp
                  /\ lastOp' = "map_novk"
    /\ src' = TRUE
    /\ sessions' = sessions + 1
    /\ ResetCalls
    /\ Snapshot
    /\ UNCHANGED << num_planes, chroma_shift, p_vkf, p_tex, mapper_tex, p_img,
                    p_img_layout, p_sem, p_sem_value, p_num_images >>
    /\ UNCHANGED frameVars
    /\ UNCHANGED << i, will_process, reserved_sem_value, ok, new_layout,
                    processed >>

\* vkfc->lock_frame(hwfc, vkf)                                   (line 430)
MapLock ==
    /\ pc = "map_lock"
    /\ frameLock = "free"
    /\ frameLock' = "mapper"
    /\ lockCalls' = lockCalls + 1
    /\ pc' = "map_snapshot"
    /\ UNCHANGED << mapperVars, histVars >>
    /\ UNCHANGED << vkf_img, vkf_sem, vkf_sem_value, vkf_layout, vkf_access >>
    /\ UNCHANGED << ret, i, will_process, reserved_sem_value, ok, new_layout,
                    processed >>
    /\ UNCHANGED << unlockCalls, frameAccess, frameOps, wrapCalls, holdCalls, freeCalls >>

\* The snapshot of the frame                                (lines 431-438)
MapSnapshot ==
    /\ pc = "map_snapshot"
    /\ LET n == CountImages(vkf_img) IN
          /\ p_img' = [k \in Idx |-> IF k < n THEN vkf_img[k] ELSE p_img[k]]
          /\ p_img_layout' =
                [k \in Idx |-> IF k < n THEN vkf_layout[k] ELSE p_img_layout[k]]
          /\ p_sem' = [k \in Idx |-> IF k < n THEN vkf_sem[k] ELSE p_sem[k]]
          /\ p_sem_value' =
                [k \in Idx |-> IF k < n THEN vkf_sem_value[k] ELSE p_sem_value[k]]
          /\ p_num_images' = n
    /\ frameAccess' = TRUE
    /\ frameOps' = Append(frameOps, FrameOp("snapshot"))
    /\ pc' = "map_unlock"
    /\ UNCHANGED << num_planes, chroma_shift, src, hwfc_size, p_vkf, p_tex,
                    mapper_tex >>
    /\ UNCHANGED << frameVars, histVars >>
    /\ UNCHANGED << ret, i, will_process, reserved_sem_value, ok, new_layout,
                    processed >>
    /\ UNCHANGED << lockCalls, unlockCalls, wrapCalls, holdCalls, freeCalls >>

\* vkfc->unlock_frame(hwfc, vkf)                                 (line 439)
MapUnlock ==
    /\ pc = "map_unlock"
    /\ frameLock' = "free"
    /\ unlockCalls' = unlockCalls + 1
    /\ pc' = "map_plane"
    /\ i' = 0
    /\ UNCHANGED << mapperVars, histVars >>
    /\ UNCHANGED << vkf_img, vkf_sem, vkf_sem_value, vkf_layout, vkf_access >>
    /\ UNCHANGED << ret, will_process, reserved_sem_value, ok, new_layout,
                    processed >>
    /\ UNCHANGED << lockCalls, frameAccess, frameOps, wrapCalls, holdCalls, freeCalls >>

WrapCall_luma(plane) ==
    LET index == ImportIndex(num_planes, p_num_images, plane)
        raw == RawLayoutSize(hwfc_size, NominalSize)
    IN [ plane |-> plane,
         index |-> index,
         image |-> p_img[index],
         aspect |-> ImportAspect(num_planes, p_num_images, plane),
         width |-> mp_image_plane_w(raw, chroma_shift, 0),
         height |-> mp_image_plane_h(raw, chroma_shift, 0),
         locked |-> (frameLock = "mapper") ]

\* The record of one pl_vulkan_wrap call                    (lines 466-473)
WrapCall(plane) ==
    LET index == ImportIndex(num_planes, p_num_images, plane)
        raw == RawLayoutSize(hwfc_size, NominalSize)
    IN [ plane |-> plane,
         index |-> index,
         image |-> p_img[index],
         aspect |-> ImportAspect(num_planes, p_num_images, plane),
         width |-> mp_image_plane_w(raw, chroma_shift, plane),
         height |-> mp_image_plane_h(raw, chroma_shift, plane),
         locked |-> (frameLock = "mapper") ]

\* One iteration of the plane loop                          (lines 441-495)
\* outcome: "wrap_failed" (pl_vulkan_wrap returned NULL), "ratex_failed"
\* (mppl_wrap_tex returned false), "ok".
MapPlane ==
    /\ pc = "map_plane"
    /\ i < num_planes
    /\ IF ImportAspect(num_planes, p_num_images, i) = "none"
       THEN \* default: goto error
            /\ pc' = "unmap_begin"
            /\ UNCHANGED << p_tex, mapper_tex, i, wrapCalls >>
       ELSE \E outcome \in {"wrap_failed", "ratex_failed", "ok"} :
            /\ wrapCalls' = Append(wrapCalls, WrapCall(i))
            /\ IF outcome = "ok"
               THEN /\ p_tex' = [p_tex EXCEPT ![i] = TRUE]
                    /\ mapper_tex' = [mapper_tex EXCEPT ![i] = TRUE]
                    /\ i' = i + 1
                    /\ pc' = "map_plane"
               ELSE /\ p_tex' = [p_tex EXCEPT ![i] = FALSE]
                    /\ pc' = "unmap_begin"
                    /\ UNCHANGED << mapper_tex, i >>
    /\ UNCHANGED << num_planes, chroma_shift, src, hwfc_size, p_vkf, p_img,
                    p_img_layout, p_sem, p_sem_value, p_num_images >>
    /\ UNCHANGED << frameVars, histVars >>
    /\ UNCHANGED << ret, will_process, reserved_sem_value, ok, new_layout,
                    processed >>
    /\ UNCHANGED << lockCalls, unlockCalls, frameAccess, frameOps, holdCalls, freeCalls >>

\* p->vkf = vkf; return 0;                                  (lines 497-498)
MapDone ==
    /\ pc = "map_plane"
    /\ i = num_planes
    /\ p_vkf' = TRUE
    /\ pc' = "idle"
    /\ ret' = "none"
    /\ i' = 0
    /\ prevOp' = lastOp
    /\ lastOp' = "map_ok"
    /\ UNCHANGED << num_planes, chroma_shift, src, hwfc_size, p_tex, mapper_tex,
                    p_img, p_img_layout, p_sem, p_sem_value, p_num_images >>
    /\ UNCHANGED << frameVars, callVars >>
    /\ UNCHANGED << will_process, reserved_sem_value, ok, new_layout, processed >>
    /\ UNCHANGED << sessions, pre_sem_value, pre_layout, pre_tex, pre_vkf,
                    pre_access >>


\* ---------------------------------------------------------- mapper_unmap

\* The caller invokes mapper_unmap on the session.
UnmapCall ==
    /\ pc = "idle"
    /\ pc' = "unmap_begin"
    /\ ret' = "unmap"
    /\ ResetCalls
    /\ Snapshot
    /\ UNCHANGED << mapperVars, frameVars >>
    /\ UNCHANGED << i, will_process, reserved_sem_value, ok, new_layout,
                    processed >>
    /\ UNCHANGED << sessions, prevOp, lastOp >>

\* The caller drops its reference to the source image after an unmap
\* (mp_image_unrefp(&mapper->src)).
DropSrc ==
    /\ pc = "idle"
    /\ src
    /\ lastOp = "unmap"
    /\ src' = FALSE
    /\ UNCHANGED << num_planes, chroma_shift, hwfc_size, p_vkf, p_tex,
                    mapper_tex, p_img, p_img_layout, p_sem, p_sem_value,
                    p_num_images >>
    /\ UNCHANGED << frameVars, localVars, callVars, histVars >>

\* if (!mapper->src) goto end;   and the declarations        (lines 328-340)
UnmapBegin ==
    /\ pc = "unmap_begin"
    /\ pc' = IF src THEN "unmap_scan" ELSE "unmap_end"
    /\ ResetLocals
    /\ lockCalls' = 0
    /\ unlockCalls' = 0
    /\ frameAccess' = FALSE
    /\ frameOps' = << >>
    /\ holdCalls' = << >>
    /\ freeCalls' = 0
    /\ UNCHANGED << mapperVars, frameVars, histVars, ret, wrapCalls >>

\* One iteration of  for (int i = 0; (p->tex[i] != NULL); i++)  (342-348).
\* The loop has no bound on i: with four textures held it reads p->tex[4],
\* past the end of the array.  That read is undefined; the outcomes kept
\* are "the loop stops" and "the process faults".
UnmapScan ==
    /\ pc = "unmap_scan"
    /\ IF i < NumSlots
       THEN IF p_tex[i]
            THEN /\ will_process' =
                      [will_process EXCEPT
                          ![ExportIndex(num_planes, p_num_images, i)] = TRUE]
                 /\ i' = i + 1
                 /\ pc' = "unmap_scan"
            ELSE /\ pc' = "unmap_lock1"
                 /\ i' = 0
                 /\ UNCHANGED will_process
       ELSE /\ \E outcome \in {"stop", "fault"} :
                 pc' = IF outcome = "stop" THEN "unmap_lock1" ELSE "crashed"
            /\ i' = 0
            /\ UNCHANGED will_process
    /\ UNCHANGED << mapperVars, frameVars, callVars, histVars >>
    /\ UNCHANGED << ret, reserved_sem_value, ok, new_layout, processed >>

\* vkfc->lock_frame(hwfc, vkf) with vkf = p->vkf.  With p->vkf == NULL the
\* callee dereferences a null frame: it faults or returns without a lock.
LockFrame(from, to) ==
    /\ pc = from
    /\ lockCalls' = lockCalls + 1
    /\ IF p_vkf
       THEN /\ frameLock = "free"
            /\ frameLock' = "mapper"
            /\ pc' = to
       ELSE /\ \E outcome \in {"return", "fault"} :
                 pc' = IF outcome = "return" THEN to ELSE "crashed"
            /\ UNCHANGED frameLock
    /\ UNCHANGED << mapperVars, histVars >>
    /\ UNCHANGED << vkf_img, vkf_sem, vkf_sem_value, vkf_layout, vkf_access >>
    /\ UNCHANGED << ret, i, will_process, reserved_sem_value, ok, new_layout >>
    /\ UNCHANGED << unlockCalls, frameAccess, frameOps, wrapCalls, holdCalls, freeCalls >>

UnlockFrame_held(from, to) ==
    /\ pc = from
    /\ unlockCalls' = unlockCalls + 1
    /\ pc' = to
    /\ UNCHANGED frameLock
    /\ UNCHANGED << mapperVars, histVars >>
    /\ UNCHANGED << vkf_img, vkf_sem, vkf_sem_value, vkf_layout, vkf_access >>
    /\ UNCHANGED << ret, will_process, reserved_sem_value, ok, new_layout >>
    /\ UNCHANGED << lockCalls, frameAccess, frameOps, wrapCalls, holdCalls, freeCalls >>

\* vkfc->unlock_frame(hwfc, vkf)
UnlockFrame(from, to) ==
    /\ pc = from
    /\ unlockCalls' = unlockCalls + 1
    /\ IF p_vkf
       THEN /\ frameLock' = "free"
            /\ pc' = to
       ELSE /\ \E outcome \in {"return", "fault"} :
                 pc' = IF outcome = "return" THEN to ELSE "crashed"
            /\ UNCHANGED frameLock
    /\ UNCHANGED << mapperVars, histVars >>
    /\ UNCHANGED << vkf_img, vkf_sem, vkf_sem_value, vkf_layout, vkf_access >>
    /\ UNCHANGED << ret, will_process, reserved_sem_value, ok, new_layout >>
    /\ UNCHANGED << lockCalls, frameAccess, frameOps, wrapCalls, holdCalls, freeCalls >>

UnmapLock1 == LockFrame("unmap_lock1", "unmap_reserve") /\ UNCHANGED processed

\* The image indices the two locked loops visit: i < num_images && i < 4
Visited(k) == k < p_num_images /\ k < NumSlots

Reserve_all(sem, touched, k) ==
    IF Visited(k) THEN sem[k] + 1 ELSE sem[k]

\* reserved_sem_value[i] = ++vkf->sem_value[i]               (lines 351-355)
Reserve(sem, touched, k) ==
    IF Visited(k) /\ touched[k] THEN sem[k] + 1 ELSE sem[k]

UnmapReserve ==
    /\ pc = "unmap_reserve"
    /\ LET hit == \E k \in Idx : Visited(k) /\ will_process[k] IN
       IF p_vkf
       THEN /\ vkf_sem_value' =
                 [k \in Idx |-> Reserve(vkf_sem_value, will_process, k)]
            /\ reserved_sem_value' =
                 [k \in Idx |-> IF Visited(k) /\ will_process[k]
                                THEN Reserve(vkf_sem_value, will_process, k)
                                ELSE reserved_sem_value[k]]
            /\ frameAccess' = (frameAccess \/ hit)
            /\ frameOps' = IF hit THEN Append(frameOps, FrameOp("reserve"))
                           ELSE frameOps
            /\ pc' = "unmap_unlock1"
       ELSE \* ++vkf->sem_value[i] through a null vkf
            /\ IF hit
               THEN \E outcome \in {"continue", "fault"} :
                      /\ pc' = IF outcome = "continue"
                               THEN "unmap_unlock1" ELSE "crashed"
                      /\ reserved_sem_value' =
                           [k \in Idx |-> IF Visited(k) /\ will_process[k]
                                          THEN 1 ELSE reserved_sem_value[k]]
               ELSE /\ pc' = "unmap_unlock1"
                    /\ UNCHANGED reserved_sem_value
            /\ frameAccess' = (frameAccess \/ hit)
            /\ UNCHANGED << vkf_sem_value, frameOps >>
    /\ UNCHANGED << mapperVars, histVars >>
    /\ UNCHANGED << vkf_img, vkf_sem, vkf_layout, vkf_access, frameLock >>
    /\ UNCHANGED << ret, i, will_process, ok, new_layout, processed >>
    /\ UNCHANGED << lockCalls, unlockCalls, wrapCalls, holdCalls, freeCalls >>

\* unlock, then  bool processed[4] = {false};                (lines 356-358)
UnmapUnlock1 ==
    /\ UnlockFrame("unmap_unlock1", "unmap_hold")
    /\ processed' = AllFalse
    /\ i' = 0

HoldCall_snapshot(plane, index, result) ==
    [ plane |-> plane,
      result |-> result,
      index |-> index,
      sem |-> p_sem[index],
      value |-> p_sem_value[index],
      frame_value |-> vkf_sem_value[index],
      unlocks |-> unlockCalls,
      locked |-> (frameLock = "mapper") ]

\* The record of one pl_vulkan_hold_ex call                  (lines 369-377)
HoldCall(plane, index, result) ==
    [ plane |-> plane,
      result |-> result,
      index |-> index,
      sem |-> p_sem[index],
      value |-> reserved_sem_value[index],
      frame_value |-> vkf_sem_value[index],
      unlocks |-> unlockCalls,
      locked |-> (frameLock = "mapper") ]

NeedsHold_always(done, index) == TRUE

\* if (!processed[index])                                        (line 367)
NeedsHold(done, index) == ~done[index]

\* One iteration of the release loop                         (lines 359-382)
\* res: 0 when pl_vulkan_hold_ex reports failure, else the layout it reports.
UnmapHold ==
    /\ pc = "unmap_hold"
    /\ IF i < NumSlots
       THEN IF p_tex[i]
            THEN LET index == ExportIndex(num_planes, p_num_images, i) IN
                 /\ IF NeedsHold(processed, index)
                    THEN \E res \in {0} \cup HoldLayouts :
                           /\ ok' = [ok EXCEPT ![index] = (res # 0)]
                           /\ new_layout' = [new_layout EXCEPT ![index] = res]
                           /\ holdCalls' = Append(holdCalls, HoldCall(i, index, res))
                           /\ processed' = [processed EXCEPT ![index] = TRUE]
                    ELSE UNCHANGED << ok, new_layout, holdCalls, processed >>
                 /\ p_tex' = [p_tex EXCEPT ![i] = FALSE]
                 /\ i' = i + 1
                 /\ pc' = "unmap_hold"
            ELSE /\ pc' = "unmap_lock2"
                 /\ i' = 0
                 /\ UNCHANGED << ok, new_layout, holdCalls, processed, p_tex >>
       ELSE /\ \E outcome \in {"stop", "fault"} :
                 pc' = IF outcome = "stop" THEN "unmap_lock2" ELSE "crashed"
            /\ i' = 0
            /\ UNCHANGED << ok, new_layout, holdCalls, processed, p_tex >>
    /\ UNCHANGED << num_planes, chroma_shift, src, hwfc_size, p_vkf, mapper_tex,
                    p_img, p_img_layout, p_sem, p_sem_value, p_num_images >>
    /\ UNCHANGED << frameVars, histVars >>
    /\ UNCHANGED << ret, will_process, reserved_sem_value >>
    /\ UNCHANGED << lockCalls, unlockCalls, frameAccess, frameOps, wrapCalls, freeCalls >>

UnmapLock2 == LockFrame("unmap_lock2", "unmap_commit") /\ UNCHANGED processed

\* The commit / rollback loop                                (lines 385-394)
CommitLayout(k) ==
    IF Visited(k) /\ will_process[k] /\ ok[k] THEN new_layout[k]
    ELSE vkf_layout[k]

CommitSem(k) ==
    IF Visited(k) /\ will_process[k] /\ ~ok[k]
    THEN reserved_sem_value[k] - 1
    ELSE vkf_sem_value[k]

CommitAccess(k) == IF Visited(k) THEN 0 ELSE vkf_access[k]

UnmapCommit ==
    /\ pc = "unmap_commit"
    /\ LET hit == \E k \in Idx : Visited(k) IN
       IF p_vkf
       THEN /\ vkf_layout' = [k \in Idx |-> CommitLayout(k)]
            /\ vkf_sem_value' = [k \in Idx |-> CommitSem(k)]
            /\ vkf_access' = [k \in Idx |-> CommitAccess(k)]
            /\ frameAccess' = (frameAccess \/ hit)
            /\ frameOps' = IF hit THEN Append(frameOps, FrameOp("commit"))
                           ELSE frameOps
            /\ pc' = "unmap_unlock2"
       ELSE \* vkf->access[i] = 0 (and the rest) through a null vkf
            /\ IF hit
               THEN \E outcome \in {"continue", "fault"} :
                      pc' = IF outcome = "continue"
                            THEN "unmap_unlock2" ELSE "crashed"
               ELSE pc' = "unmap_unlock2"
            /\ frameAccess' = (frameAccess \/ hit)
            /\ UNCHANGED << vkf_layout, vkf_sem_value, vkf_access, frameOps >>
    /\ UNCHANGED << mapperVars, histVars >>
    /\ UNCHANGED << vkf_img, vkf_sem, frameLock >>
    /\ UNCHANGED << ret, i, will_process, reserved_sem_value, ok, new_layout,
                    processed >>
    /\ UNCHANGED << lockCalls, unlockCalls, wrapCalls, holdCalls, freeCalls >>

UnmapUnlock2 ==
    /\ UnlockFrame("unmap_unlock2", "unmap_end")
    /\ UNCHANGED << processed, i >>

\* end: ra_tex_free for every plane; p->vkf = NULL; return  (lines 397-401).
\* Reached from mapper_map's error label, the return is mapper_map's -1.
UnmapEnd ==
    /\ pc = "unmap_end"
    /\ mapper_tex' = [k \in Idx |-> IF k < num_planes THEN FALSE
                                    ELSE mapper_tex[k]]
    /\ freeCalls' = freeCalls + num_planes
    /\ p_vkf' = FALSE
    /\ pc' = "idle"
    /\ ret' = "none"
    /\ prevOp' = lastOp
    /\ lastOp' = IF ret = "map" THEN "map_failed" ELSE "unmap"
    /\ ResetLocals
    /\ UNCHANGED << num_planes, chroma_shift, src, hwfc_size, p_tex, p_img,
                    p_img_layout, p_sem, p_sem_value, p_num_images >>
    /\ UNCHANGED frameVars
    /\ UNCHANGED << lockCalls, unlockCalls, frameAccess, frameOps, wrapCalls, holdCalls >>
    /\ UNCHANGED << sessions, pre_sem_value, pre_layout, pre_tex, pre_vkf,
                    pre_access >>

SessionNext ==
    \/ MapCall \/ MapLock \/ MapSnapshot \/ MapUnlock \/ MapPlane \/ MapDone
    \/ UnmapCall \/ DropSrc \/ UnmapBegin \/ UnmapScan \/ UnmapLock1
    \/ UnmapReserve \/ UnmapUnlock1 \/ UnmapHold \/ UnmapLock2
    \/ UnmapCommit \/ UnmapUnlock2 \/ UnmapEnd

\* ------------------------------------------------------------ vulkan_init

devVars == << new_api, env, qf, dev_pc, init_ret, hwctx_qf, legacy, hooks,
              backend_inited, registry, alloc >>

\* One VkQueueFamilyProperties2 with its VkQueueFamilyVideoPropertiesKHR:
\* queueFlags as the set of its bits, queueCount, videoCodecOperations.
OtherFamily == [flags |-> {"GRAPHICS", "COMPUTE", "TRANSFER"}, count |-> 1, caps |-> 0]
DecodeFamilies ==
    { [flags |-> {"VIDEO_DECODE"}, count |-> 1, caps |-> 2],
      [flags |-> {"VIDEO_DECODE", "TRANSFER"}, count |-> 2, caps |-> 3] }
Families == {OtherFamily} \cup DecodeFamilies

RECURSIVE SeqsUpTo(_, _)
SeqsUpTo(S, n) ==
    IF n = 0 THEN {<< >>}
    ELSE LET shorter == SeqsUpTo(S, n - 1)
         IN shorter \cup {Append(q, x) : q \in {r \in shorter : Len(r) = n - 1},
                                          x \in S}

\* vk->vulkan->queue_graphics / queue_transfer / queue_compute
QueueGraphics == [index |-> 0, count |-> 1]
QueueTransfer == [index |-> 1, count |-> 2]
QueueCompute == [index |-> 0, count |-> 3]

NoLegacy == [decode_index |-> -2, nb_decode |-> -2,
             graphics |-> << -2, -2 >>, tx |-> << -2, -2 >>,
             comp |-> << -2, -2 >>]

\* flags & VK_QUEUE_VIDEO_DECODE_BIT_KHR
IsDecode(f) == "VIDEO_DECODE" \in f.flags

RECURSIVE DecodeEntries_firstcaps(_, _)
DecodeEntries_firstcaps(fams, n) ==
    IF n > Len(fams) THEN << >>
    ELSE (IF IsDecode(fams[n])
          THEN << [idx |-> n - 1, num |-> fams[n].count,
                   flags |-> "VIDEO_DECODE", video_caps |-> fams[1].caps] >>
          ELSE << >>) \o DecodeEntries_firstcaps(fams, n + 1)

\* The multi-queue loop                                      (lines 211-223)
RECURSIVE DecodeEntries(_, _)
DecodeEntries(fams, n) ==
    IF n > Len(fams) THEN << >>
    ELSE (IF IsDecode(fams[n])
          THEN << [idx |-> n - 1, num |-> fams[n].count,
                   flags |-> "VIDEO_DECODE", video_caps |-> fams[n].caps] >>
          ELSE << >>) \o DecodeEntries(fams, n + 1)

\* device_hwctx->qf[] as filled in lines 189-223
MultiQueueAssignment(fams) ==
    << [idx |-> QueueGraphics.index, num |-> QueueGraphics.count,
        flags |-> "GRAPHICS", video_caps |-> 0],
       [idx |-> QueueTransfer.index, num |-> QueueTransfer.count,
        flags |-> "TRANSFER", video_caps |-> 0],
       [idx |-> QueueCompute.index, num |-> QueueCompute.count,
        flags |-> "COMPUTE", video_caps |-> 0] >>
    \o DecodeEntries(fams, 1)

RECURSIVE ScanDecodeIndex_first(_, _, _)
ScanDecodeIndex_first(fams, n, found) ==
    IF n > Len(fams) THEN found
    ELSE IF IsDecode(fams[n]) THEN n - 1
    ELSE ScanDecodeIndex_first(fams, n + 1, found)

\* The legacy scan                                           (lines 227-233)
RECURSIVE ScanDecodeIndex(_, _, _)
ScanDecodeIndex(fams, n, found) ==
    IF n > Len(fams) THEN found
    ELSE ScanDecodeIndex(fams, n + 1, IF IsDecode(fams[n]) THEN n - 1 ELSE found)

\* The legacy fields as filled in lines 234-247
LegacyAssignment(fams) ==
    LET decode_index == ScanDecodeIndex(fams, 1, -1) IN
    [decode_index |-> decode_index,
     nb_decode |-> IF decode_index >= 0 THEN fams[decode_index + 1].count ELSE 0,
     graphics |-> << QueueGraphics.index, QueueGraphics.count >>,
     tx |-> << QueueTransfer.index, QueueTransfer.count >>,
     comp |-> << QueueCompute.index, QueueCompute.count >>]

FreshAlloc == [qf |-> "none", qf_vid |-> "none", hw_device_ctx |-> "none",
             lock_ctx |-> "none", mutex |-> "none"]


DevInit ==
    /\ new_api \in BOOLEAN
    /\ env \in [vk : BOOLEAN, gpu : BOOLEAN, ext : BOOLEAN,
                dev_alloc : BOOLEAN, lock_alloc : BOOLEAN,
                backend_init : BOOLEAN]
    /\ qf \in SeqsUpTo(Families, MaxFamilies)
    /\ dev_pc = "fresh"
    /\ init_ret = 1
    /\ hwctx_qf = << >>
    /\ legacy = NoLegacy
    /\ hooks = FALSE
    /\ backend_inited = FALSE
    /\ registry = 0
    /\ alloc = FreshAlloc

InitError_leak(a) ==
    [a EXCEPT !.qf = IF @ = "allocated" THEN "freed" ELSE @,
              !.qf_vid = IF @ = "allocated" THEN "freed" ELSE @]

\* The state vulkan_init leaves when it takes  goto error   (lines 271-275)
InitError(a) ==
    [a EXCEPT !.qf = IF @ = "allocated" THEN "freed" ELSE @,
              !.qf_vid = IF @ = "allocated" THEN "freed" ELSE @,
              !.hw_device_ctx = IF @ = "allocated" THEN "freed" ELSE @]

\* vulkan_init, as one step                                  (lines 70-276)
VulkanInit ==
    /\ dev_pc = "fresh"
    /\ dev_pc' = "inited"
    /\ LET a1 == [alloc EXCEPT !.qf = "allocated", !.qf_vid = "allocated"]
           a2 == [a1 EXCEPT !.hw_device_ctx = "allocated"]
           a3 == [a2 EXCEPT !.lock_ctx = "allocated", !.mutex = "inited"]
       IN
       IF ~env.vk \/ ~env.gpu \/ ~env.ext
       THEN \* return 0 without a device                (lines 80-111)
            /\ init_ret' = 0
            /\ UNCHANGED << hwctx_qf, legacy, hooks, backend_inited, registry,
                            alloc >>
       ELSE IF Len(qf) = 0
       THEN \* if (!num_qf) goto error                  (lines 122-125)
            /\ init_ret' = -1
            /\ alloc' = InitError(alloc)
            /\ UNCHANGED << hwctx_qf, legacy, hooks, backend_inited, registry >>
       ELSE IF ~env.dev_alloc
       THEN \* av_hwdevice_ctx_alloc failed             (lines 155-159)
            /\ init_ret' = -1
            /\ alloc' = InitError(a1)
            /\ UNCHANGED << hwctx_qf, legacy, hooks, backend_inited, registry >>
       ELSE IF ~env.lock_alloc
       THEN \* talloc_zero of the lock context failed   (lines 166-170)
            /\ init_ret' = -1
            /\ alloc' = InitError(a2)
            /\ UNCHANGED << hwctx_qf, legacy, hooks, backend_inited, registry >>
       ELSE /\ hooks' = TRUE
            /\ IF new_api
               THEN /\ hwctx_qf' = MultiQueueAssignment(qf)
                    /\ UNCHANGED legacy
               ELSE /\ legacy' = LegacyAssignment(qf)
                    /\ UNCHANGED hwctx_qf
            /\ backend_inited' = TRUE
            /\ IF ~env.backend_init
               THEN \* ret < 0: goto error               (lines 253-257)
                    /\ init_ret' = -1
                    /\ alloc' = InitError(a3)
                    /\ UNCHANGED registry
               ELSE \* hwdec_devices_add, free the arrays (lines 260-269)
                    /\ init_ret' = 0
                    /\ registry' = registry + 1
                    /\ alloc' = [a3 EXCEPT !.qf = "freed", !.qf_vid = "freed"]
    /\ UNCHANGED << new_api, env, qf >>

\* vulkan_uninit                                             (lines 278-290)
VulkanUninit ==
    /\ dev_pc = "inited"
    /\ dev_pc' = "uninited"
    /\ registry' = 0
    /\ alloc' = [alloc EXCEPT
                   !.hw_device_ctx = IF @ = "allocated" THEN "freed" ELSE @,
                   !.mutex = IF alloc.lock_ctx = "allocated"
                             THEN "destroyed" ELSE @,
                   !.lock_ctx = IF @ = "allocated" THEN "freed" ELSE @]
    /\ UNCHANGED << new_api, env, qf, init_ret, hwctx_qf, legacy, hooks,
                    backend_inited >>

DevNext == VulkanInit \/ VulkanUninit

\* The device part at rest, for the specifications about the other parts.
DevIdle ==
    /\ new_api = TRUE
    /\ env = [vk |-> TRUE, gpu |-> TRUE, ext |-> TRUE, dev_alloc |-> TRUE,
              lock_alloc |-> TRUE, backend_init |-> TRUE]
    /\ qf = << >>
    /\ dev_pc = "idle"
    /\ init_ret = 0
    /\ hwctx_qf = << >>
    /\ legacy = NoLegacy
    /\ hooks = TRUE
    /\ backend_inited = TRUE
    /\ registry = 1
    /\ alloc = FreshAlloc

\* ------------------------------------------------ lock_queue / unlock_queue

guardVars == << mutex, queue_lock, tpc, tq >>

Decoders == 1 .. NumThreads
Renderers == (NumThreads + 1) .. (NumThreads + NumRenderers)
Threads == Decoders \cup Renderers
Queues == 1 .. NumQueues

GuardInit ==
    /\ mutex = 0
    /\ queue_lock = [q \in Queues |-> 0]
    /\ tpc = [t \in Threads |-> "idle"]
    /\ tq = [t \in Threads |-> 1]

TakesMutex_nolock(t) == mutex' = t

\* mp_mutex_lock(&lock_ctx->mutex)                            (line 57)
TakesMutex(t) == mutex = 0 /\ mutex' = t

\* A decoder thread calls the lock hook for queue q           (lines 52-55)
LockQueueCall(t, q) ==
    /\ tpc[t] = "idle"
    /\ tpc' = [tpc EXCEPT ![t] = "lock_mutex"]
    /\ tq' = [tq EXCEPT ![t] = q]
    /\ UNCHANGED << mutex, queue_lock >>

\* The call blocks until the mutex is free, then takes it.
LockQueueMutex(t, q) ==
    /\ tpc[t] = "lock_mutex"
    /\ tq[t] = q
    /\ TakesMutex(t)
    /\ tpc' = [tpc EXCEPT ![t] = "lock_native"]
    /\ tq' = [tq EXCEPT ![t] = q]
    /\ UNCHANGED queue_lock

\* lock_ctx->vulkan->lock_queue(...): the backend's own queue lock (line 58);
\* when it returns, lock_queue returns.
LockQueueNative(t) ==
    /\ tpc[t] = "lock_native"
    /\ queue_lock[tq[t]] = 0
    /\ queue_lock' = [queue_lock EXCEPT ![tq[t]] = t]
    /\ tpc' = [tpc EXCEPT ![t] = "submitting"]
    /\ UNCHANGED << mutex, tq >>

UnlockQueueNative_mutexfirst(t) ==
    /\ tpc[t] = "submitting"
    /\ mutex' = 0
    /\ tpc' = [tpc EXCEPT ![t] = "unlock_mutex"]
    /\ UNCHANGED << queue_lock, tq >>

\* lock_ctx->vulkan->unlock_queue(...)                        (line 66)
UnlockQueueNative(t) ==
    /\ tpc[t] = "submitting"
    /\ queue_lock' = [queue_lock EXCEPT ![tq[t]] = 0]
    /\ tpc' = [tpc EXCEPT ![t] = "unlock_mutex"]
    /\ UNCHANGED << mutex, tq >>

ReleasesMutex_kept == mutex' = mutex

\* mp_mutex_unlock(&lock_ctx->mutex)                          (line 67)
ReleasesMutex == mutex' = 0

\* unlock_queue returns once the mutex is released.
UnlockQueueMutex(t) ==
    /\ tpc[t] = "unlock_mutex"
    /\ ReleasesMutex
    /\ tpc' = [tpc EXCEPT ![t] = "idle"]
    /\ UNCHANGED << queue_lock, tq >>

\* A renderer thread uses the backend's queue lock directly.
RendererLock(t, q) ==
    /\ tpc[t] = "idle"
    /\ queue_lock[q] = 0
    /\ queue_lock' = [queue_lock EXCEPT ![q] = t]
    /\ tpc' = [tpc EXCEPT ![t] = "rendering"]
    /\ tq' = [tq EXCEPT ![t] = q]
    /\ UNCHANGED mutex

RendererUnlock(t) ==
    /\ tpc[t] = "rendering"
    /\ queue_lock' = [queue_lock EXCEPT ![tq[t]] = 0]
    /\ tpc' = [tpc EXCEPT ![t] = "idle"]
    /\ UNCHANGED << mutex, tq >>

GuardNext ==
    \/ \E t \in Decoders, q \in Queues : LockQueueCall(t, q)
    \/ \E t \in Decoders, q \in Queues : LockQueueMutex(t, q)
    \/ \E t \in Decoders : LockQueueNative(t)
    \/ \E t \in Decoders : UnlockQueueNative(t)
    \/ \E t \in Decoders : UnlockQueueMutex(t)
    \/ \E t \in Renderers, q \in Queues : RendererLock(t, q)
    \/ \E t \in Renderers : RendererUnlock(t)

\* ------------------------------------------- other users of the same frame

otherVars == << other_reserved, reserve_log >>

OtherIdle ==
    /\ other_reserved = {}
    /\ reserve_log = << >>

\* The reservations mapper_unmap makes inside its first lock_frame /
\* unlock_frame pair (lines 350-356), in the order of the loop.
MapperReservations ==
    LET ks == SelectSeq(<< 0, 1, 2, 3 >>,
                        LAMBDA k : Visited(k) /\ will_process[k])
    IN [n \in 1 .. Len(ks) |->
           [who |-> "mapper", image |-> ks[n],
            value |-> vkf_sem_value[ks[n]] + 1]]

\* A step of the mapper, with its reservations entered in the log.
SessionStep ==
    /\ SessionNext
    /\ reserve_log' = IF pc = "unmap_reserve" /\ p_vkf
                      THEN reserve_log \o MapperReservations
                      ELSE reserve_log
    /\ UNCHANGED other_reserved

\* Another user of the AVVkFrame (the decoder, another mapper) takes the
\* frame lock, reserves the next value of image k's timeline counter and
\* releases the lock.
OtherReserve(k) ==
    /\ frameLock = "free"
    /\ pc # "crashed"
    /\ Cardinality(other_reserved) < MaxOther
    /\ vkf_img[k] # 0
    /\ vkf_sem_value' = [vkf_sem_value EXCEPT ![k] = @ + 1]
    /\ other_reserved' = other_reserved \cup {<< k, vkf_sem_value[k] + 1 >>}
    /\ reserve_log' = Append(reserve_log,
                             [who |-> "other", image |-> k,
                              value |-> vkf_sem_value[k] + 1])
    /\ UNCHANGED << mapperVars, localVars, callVars, histVars >>
    /\ UNCHANGED << vkf_img, vkf_sem, vkf_layout, vkf_access, frameLock >>

\* ------------------------------------------------- mp_time_ns_to_realtime

timeVars == << time_ns, time_now, realtime, ts, time_pc >>

\* INT64_C(1000000000)
NsPerSec == 1000000000
\* 1000 * 24 * 60 * 60: the clamp, in seconds
ClampSec == 1000 * 24 * 60 * 60

\* The readings and arguments tried: whole seconds and nanosecond parts.
TimeSecs == {0, 9, 10, 11, 12, 10 + ClampSec, 11 + ClampSec}
ClockSecs == {10, 11}
TimeNsecs == {0, 1, 500000000, NsPerSec - 1}
RealSec == 1700000000

TimeIdle ==
    /\ time_ns = << 0, 0 >>
    /\ time_now = << 10, 0 >>
    /\ realtime = [ok |-> TRUE, tv |-> << RealSec, 0 >>]
    /\ ts = << 0, 0 >>
    /\ time_pc = "returned"

\* A call of mp_time_ns_to_realtime(time_ns) with the two clocks' readings.
TimeInit ==
    /\ time_ns \in TimeSecs \X TimeNsecs
    /\ time_now \in ClockSecs \X TimeNsecs
    /\ realtime \in [ok : BOOLEAN, tv : {RealSec} \X TimeNsecs]
    /\ ts = << 0, 0 >>
    /\ time_pc = "called"

\* int64_t time_rel = time_ns - mp_time_ns(), as the pair
\* << time_rel / 1000000000, time_rel % 1000000000 >> of C's truncating
\* division: the remainder has the sign of time_rel.
TimeRel(target, now) ==
    LET ds == target[1] - now[1]
        dn == target[2] - now[2]
    IN IF ds > 0 /\ dn < 0 THEN << ds - 1, dn + NsPerSec >>
       ELSE IF ds < 0 /\ dn > 0 THEN << ds + 1, dn - NsPerSec >>
       ELSE << ds, dn >>

\* time_rel = MPMIN(time_rel, 1000 * 24 * 60 * 60 * INT64_C(1000000000))
ClampRel(rel) == IF rel[1] >= ClampSec THEN << ClampSec, 0 >> ELSE rel

\* if (ts.tv_nsec >= 1000000000) { ts.tv_sec++; ts.tv_nsec -= 1000000000; }
Normalize(sec, nsec) ==
    IF nsec >= NsPerSec THEN << sec + 1, nsec - NsPerSec >>
    ELSE << sec, nsec >>

\* mp_time_ns_to_realtime                                   (lines 114-137)
TimeToRealtime ==
    /\ time_pc = "called"
    /\ time_pc' = "returned"
    /\ IF ~realtime.ok
       THEN ts' = << 0, 0 >>
       ELSE LET rel == ClampRel(TimeRel(time_ns, time_now))
            IN ts' = Normalize(realtime.tv[1] + rel[1], realtime.tv[2] + rel[2])
    /\ UNCHANGED << time_ns, time_now, realtime >>

\* ----------------------------------------------------------- specifications

vars == << sessionVars, devVars, guardVars, otherVars, timeVars >>

\* The frame import/export protocol of one mapper on one frame.
Init == SessionInit /\ DevIdle /\ GuardInit /\ OtherIdle /\ TimeIdle
Next == SessionStep /\ UNCHANGED << devVars, guardVars, timeVars >>
Spec == Init /\ [][Next]_vars

\* Device initialisation for every platform report.
SessionIdle ==
    /\ SessionInit
    /\ num_planes = 1
    /\ vkf_img = [k \in Idx |-> IF k < 1 THEN 1 ELSE 0]

DevSpecInit == DevInit /\ SessionIdle /\ GuardInit /\ OtherIdle /\ TimeIdle
DevSpecNext == DevNext /\ UNCHANGED << sessionVars, guardVars, otherVars, timeVars >>
DevSpec == DevSpecInit /\ [][DevSpecNext]_vars

\* One mapper and the other users of its frame, interleaved at the frame
\* lock.
SharedNext ==
    \/ SessionStep /\ sessions' <= MaxShared
    \/ \E k \in Idx : OtherReserve(k)
\* Frames of one or two planes on one or two images.
SharedInit ==
    /\ Init
    /\ num_planes <= 2
    /\ chroma_shift = 0
    /\ vkf_img[2] = 0
SharedSpecNext == SharedNext /\ UNCHANGED << devVars, guardVars, timeVars >>
SharedSpec == SharedInit /\ [][SharedSpecNext]_vars

\* The conversion of a timer value to a wall-clock deadline.
TimeSpecInit == TimeInit /\ SessionIdle /\ DevIdle /\ GuardInit /\ OtherIdle
TimeSpecNext ==
    TimeToRealtime /\ UNCHANGED << sessionVars, devVars, guardVars, otherVars >>
TimeSpec == TimeSpecInit /\ [][TimeSpecNext]_vars

\* The threads that submit to the queues.
GuardSpecInit == GuardInit /\ SessionIdle /\ DevIdle /\ OtherIdle /\ TimeIdle
GuardSpecNext == GuardNext /\ UNCHANGED << sessionVars, devVars, otherVars, timeVars >>
GuardSpec == GuardSpecInit /\ [][GuardSpecNext]_vars

\* The same threads under fair scheduling: a thread that can leave
\* unlock_queue or release a queue does so, and a thread blocked on the
\* mutex or on a queue lock that is free again and again gets it.
GuardStep(A) == A /\ UNCHANGED << sessionVars, devVars, otherVars, timeVars >>
\* The steps of thread t that end a wait or release what it holds.
DecoderStep(t) ==
    \/ \E q \in Queues : LockQueueMutex(t, q)
    \/ LockQueueNative(t)
    \/ UnlockQueueNative(t)
    \/ UnlockQueueMutex(t)
GuardFairness ==
    /\ \A t \in Decoders : SF_vars(GuardStep(DecoderStep(t)))
    /\ \A r \in Renderers : WF_vars(GuardStep(RendererUnlock(r)))
GuardLiveSpec == GuardSpecInit /\ [][GuardSpecNext]_vars /\ GuardFairness


\* ------------------------------------------------------------------ claims

\* mapper_unmap, called by the session's owner, has ended: it returned, or
\* the process faulted inside it.
ExportEnded ==
    \/ pc = "idle" /\ lastOp = "unmap"
    \/ pc = "crashed" /\ ret = "unmap"

\* mapper_unmap is past its entry check.
InExport ==
    pc \in {"unmap_scan", "unmap_lock1", "unmap_reserve", "unmap_unlock1",
            "unmap_hold", "unmap_lock2", "unmap_commit", "unmap_unlock2",
            "unmap_end", "crashed"}

\* C1: once Export of a mapped session has ended, every image of the frame
\* that was released has its counter back at the value it had before Export
\* if its release failed, and one above that value if its release succeeded.
C1_RollbackNetZero ==
    (ExportEnded /\ pre_vkf) =>
        \A n \in 1 .. Len(holdCalls) :
            LET h == holdCalls[n] IN
            h.index < p_num_images =>
                /\ h.result = 0 =>
                      vkf_sem_value[h.index] = pre_sem_value[h.index]
                /\ h.result # 0 =>
                      vkf_sem_value[h.index] = pre_sem_value[h.index] + 1

\* C2: the second of two consecutive Exports after a successful Import is a
\* no-op: no frame lock call, no access to the frame, frame and texture
\* handles as they were when it was called.
C2_SecondExportNoop ==
    (ret = "unmap" /\ lastOp = "unmap" /\ prevOp = "map_ok"
        /\ pc # "unmap_begin") =>
        /\ pc # "crashed"
        /\ lockCalls = 0
        /\ unlockCalls = 0
        /\ ~frameAccess
        /\ vkf_sem_value = pre_sem_value
        /\ vkf_layout = pre_layout
        /\ vkf_access = pre_access
        /\ p_tex = pre_tex

\* C3: an Export that runs with no recorded frame reference (p->vkf NULL)
\* calls neither lock_frame nor unlock_frame and never touches the frame's
\* sem_value, layout or access arrays.
C3_NoFrameRefSkipsSync ==
    (InExport /\ ~p_vkf) =>
        /\ lockCalls = 0
        /\ unlockCalls = 0
        /\ ~frameAccess

\* C4: a successful Import followed immediately by Export leaves no texture
\* handle in the session, no recorded frame reference, and every access flag
\* of the frame's images cleared.
C4_ImportExportReleasesAll ==
    ( \/ pc = "idle" /\ lastOp = "unmap" /\ prevOp = "map_ok"
      \/ pc = "crashed" /\ ret = "unmap" /\ lastOp = "map_ok" ) =>
        /\ \A k \in Idx : ~p_tex[k] /\ ~mapper_tex[k]
        /\ ~p_vkf
        /\ \A k \in Idx : vkf_img[k] # 0 => vkf_access[k] = 0

PlaneAspect(plane) ==
    CASE plane = 0 -> "PLANE_0"
      [] plane = 1 -> "PLANE_1"
      [] plane = 2 -> "PLANE_2"
      [] OTHER -> "none"

\* C5: every texture-wrap call of Import uses image 0 and the plane's own
\* aspect (pairwise distinct) when one image backs several planes, and image
\* i with the color aspect for plane i when there is one image per plane.
C5_PlaneToImage ==
    \A n \in 1 .. Len(wrapCalls) :
        LET w == wrapCalls[n] IN
        /\ (p_num_images = 1 /\ num_planes > 1) =>
              /\ w.index = 0
              /\ w.image = vkf_img[0]
              /\ w.aspect = PlaneAspect(w.plane)
              /\ w.aspect # "none"
              /\ \A m \in 1 .. Len(wrapCalls) :
                    m # n => wrapCalls[m].aspect # w.aspect
        /\ (p_num_images = num_planes) =>
              /\ w.index = w.plane
              /\ w.image = vkf_img[w.plane]
              /\ w.aspect = "COLOR"

C5_Witness ==
    /\ p_num_images = 1
    /\ num_planes > 1
    /\ Len(wrapCalls) = 3

DecodeIndices == { n - 1 : n \in { m \in 1 .. Len(qf) : "VIDEO_DECODE" \in qf[m].flags } }
MaxOf(S) == CHOOSE x \in S : \A y \in S : y <= x

\* C6: with no decode-capable queue family (and the backend and extension
\* checks passed) vulkan_init fails and registers no device.
C6_NoDecodeFamilyFails ==
    (dev_pc = "inited" /\ env.vk /\ env.gpu /\ env.ext /\ DecodeIndices = {}) =>
        /\ init_ret < 0
        /\ registry = 0

\* C7: the legacy build records as decode index the highest decode-capable
\* family index (4 for decode families at 2 and 4) with that family's queue
\* count, and -1 with count 0 when there is none.
C7_LegacyLastWins ==
    (dev_pc = "inited" /\ ~new_api /\ backend_inited) =>
        /\ DecodeIndices = {} =>
              legacy.decode_index = -1 /\ legacy.nb_decode = 0
        /\ DecodeIndices # {} =>
              /\ legacy.decode_index = MaxOf(DecodeIndices)
              /\ legacy.nb_decode = qf[MaxOf(DecodeIndices) + 1].count
        /\ DecodeIndices = {2, 4} => legacy.decode_index = 4

C7_Witness ==
    /\ dev_pc = "inited"
    /\ ~new_api
    /\ backend_inited
    /\ DecodeIndices = {2, 4}
    /\ legacy.decode_index = 4

\* C8: the multi-queue build records one graphics, one transfer and one
\* compute entry and then one entry per decode-capable family in ascending
\* index order with that family's index, queue count and video capabilities;
\* nb_qf is 3 plus the number of decode-capable families.
C8_MultiQueue ==
    (dev_pc = "inited" /\ new_api /\ backend_inited) =>
        /\ Len(hwctx_qf) = 3 + Cardinality(DecodeIndices)
        /\ hwctx_qf[1] = [idx |-> QueueGraphics.index, num |-> QueueGraphics.count,
                          flags |-> "GRAPHICS", video_caps |-> 0]
        /\ hwctx_qf[2] = [idx |-> QueueTransfer.index, num |-> QueueTransfer.count,
                          flags |-> "TRANSFER", video_caps |-> 0]
        /\ hwctx_qf[3] = [idx |-> QueueCompute.index, num |-> QueueCompute.count,
                          flags |-> "COMPUTE", video_caps |-> 0]
        /\ \A j \in 4 .. Len(hwctx_qf) :
              LET e == hwctx_qf[j] IN
              /\ e.flags = "VIDEO_DECODE"
              /\ e.idx \in DecodeIndices
              /\ e.num = qf[e.idx + 1].count
              /\ e.video_caps = qf[e.idx + 1].caps
              /\ j > 4 => hwctx_qf[j - 1].idx < e.idx

C8_Witness ==
    /\ dev_pc = "inited"
    /\ new_api
    /\ backend_inited
    /\ DecodeIndices = {2, 4}
    /\ Len(hwctx_qf) = 5
    /\ qf[3].caps # qf[5].caps

\* C9 (as claimed): with a 1920x1080 frame backed by a 1920x1088 image the
\* luma plane is wrapped as 1920x1080.
C9_LumaLogicalSize ==
    \A n \in 1 .. Len(wrapCalls) :
        (hwfc_size = PaddedSize /\ wrapCalls[n].plane = 0) =>
            /\ wrapCalls[n].width = NominalSize[1]
            /\ wrapCalls[n].height = NominalSize[2]

\* C9 (amended): with a 1920x1080 frame backed by a 1920x1088 image the luma
\* plane is wrapped with the frames context's size, 1920x1088.
C9_LumaFrameCtxSize ==
    \A n \in 1 .. Len(wrapCalls) :
        (hwfc_size = PaddedSize /\ wrapCalls[n].plane = 0) =>
            /\ wrapCalls[n].width = 1920
            /\ wrapCalls[n].height = 1088

C9_Witness ==
    /\ hwfc_size = PaddedSize
    /\ NominalSize = << 1920, 1080 >>
    /\ Len(wrapCalls) >= 1
    /\ wrapCalls[1].plane = 0
    /\ p_tex[0]

\* C10: at most one thread is between the return of lock_queue and the
\* start of its matching unlock_queue, whatever queues the threads use.
C10_MutualExclusion ==
    Cardinality({ t \in Decoders : tpc[t] = "submitting" }) <= 1

C10_Witness ==
    \E t, u \in Decoders :
        /\ t # u
        /\ tpc[t] = "submitting"
        /\ tpc[u] = "idle"
        /\ \E r \in Renderers : tpc[r] = "rendering" /\ tq[r] # tq[t]


\* C11: when VK_KHR_video_decode_queue is not among the enabled device
\* extensions, vulkan_init returns a failure result and registers no device.
C11_ExtensionMissingFails ==
    (dev_pc = "inited" /\ env.vk /\ env.gpu /\ ~env.ext) =>
        /\ init_ret < 0
        /\ registry = 0

\* vulkan_init has returned after av_hwdevice_ctx_init failed.
BackendInitFailed == backend_inited /\ ~env.backend_init

\* C12 (as claimed): when av_hwdevice_ctx_init fails, vulkan_init returns
\* failure, registers no device, and on return both descriptor arrays, the
\* device handle and the queue lock context (mutex destroyed) are released.
C12_InitFailureReleasesAll ==
    (dev_pc = "inited" /\ BackendInitFailed) =>
        /\ init_ret < 0
        /\ registry = 0
        /\ alloc.qf = "freed"
        /\ alloc.qf_vid = "freed"
        /\ alloc.hw_device_ctx = "freed"
        /\ alloc.mutex = "destroyed"
        /\ alloc.lock_ctx = "freed"

\* C12 (amended): when av_hwdevice_ctx_init fails, vulkan_init returns
\* failure, registers no device, and on return has released both descriptor
\* arrays and the device handle; the queue lock context stays allocated
\* with its mutex initialised until vulkan_uninit destroys and frees it.
C12_InitFailureReleasesArraysAndDevice ==
    /\ (dev_pc = "inited" /\ BackendInitFailed) =>
          /\ init_ret < 0
          /\ registry = 0
          /\ alloc.qf = "freed"
          /\ alloc.qf_vid = "freed"
          /\ alloc.hw_device_ctx = "freed"
          /\ alloc.mutex = "inited"
          /\ alloc.lock_ctx = "allocated"
    /\ (dev_pc = "uninited" /\ BackendInitFailed) =>
          /\ registry = 0
          /\ alloc.hw_device_ctx = "freed"
          /\ alloc.mutex = "destroyed"
          /\ alloc.lock_ctx = "freed"

C12_Witness ==
    /\ dev_pc = "uninited"
    /\ BackendInitFailed
    /\ init_ret = -1
    /\ alloc.mutex = "destroyed"


\* The size of plane n of an image of the given size: chroma planes 1 and 2
\* are subsampled by the format's chroma shift, rounded up.
PlaneSizeOf(size, n) ==
    IF n \in {1, 2} /\ chroma_shift = 1
    THEN << (size[1] + 1) \div 2, (size[2] + 1) \div 2 >>
    ELSE size

\* C13: every pl_vulkan_wrap call of Import passes, for its plane i, the
\* width and height of plane i of an image that has the frame context's
\* size (hwfc->width x hwfc->height), also when that exceeds the logical size.
C13_WrapGeometryFromFrameCtx ==
    \A n \in 1 .. Len(wrapCalls) :
        << wrapCalls[n].width, wrapCalls[n].height >> =
            PlaneSizeOf(hwfc_size, wrapCalls[n].plane)

C13_Witness ==
    /\ hwfc_size = PaddedSize
    /\ hwfc_size # NominalSize
    /\ chroma_shift = 1
    /\ \E n \in 1 .. Len(wrapCalls) :
          /\ wrapCalls[n].plane = 1
          /\ wrapCalls[n].width = 960
          /\ wrapCalls[n].height = 544


\* mapper_map took  goto error : the unwinding mapper_unmap has returned
\* (and mapper_map returns -1), or it has faulted on the way.
ImportFailed ==
    \/ pc = "idle" /\ lastOp = "map_failed"
    \/ pc = "crashed" /\ ret = "map"

\* C14: when Import fails at some plane after wrapping the planes before it,
\* it unwinds through Export and returns failure with the session unmapped:
\* no texture handle held, no frame reference, and the frame's counters and
\* layouts as they were before the Import.
C14_FailedImportUnwinds ==
    ImportFailed =>
        /\ pc = "idle"
        /\ \A k \in Idx : ~p_tex[k] /\ ~mapper_tex[k]
        /\ ~p_vkf
        /\ vkf_sem_value = pre_sem_value
        /\ vkf_layout = pre_layout


\* The pl_vulkan_hold_ex calls of the current (or last) mapper_unmap that
\* release an image of the frame.
ImageHolds == { n \in 1 .. Len(holdCalls) : holdCalls[n].index < p_num_images }

\* C15: in the Export of a mapped session, for every touched image the
\* incremented counter is written into the frame under the frame lock and
\* the lock is released before pl_vulkan_hold_ex is called, and the signal
\* value passed to that call is the value reserved for the image.
C15_ReserveBeforeRelease ==
    pre_vkf =>
        \A n \in ImageHolds :
            LET h == holdCalls[n] IN
            /\ ~h.locked
            /\ h.unlocks = 1
            /\ h.value = pre_sem_value[h.index] + 1
            /\ h.frame_value = h.value
            /\ \E m \in 1 .. Len(frameOps) :
                  /\ frameOps[m].op = "reserve"
                  /\ frameOps[m].locked
                  /\ frameOps[m].unlocks = 0
                  /\ frameOps[m].before[h.index] = pre_sem_value[h.index]

C15_Witness ==
    /\ pre_vkf
    /\ pc = "unmap_hold"
    /\ \E n \in ImageHolds :
          /\ holdCalls[n].index = 1
          /\ holdCalls[n].value = 2
          /\ vkf_sem_value[1] = 2


\* The commit block's access to the frame in the current Export.
CommitOps == { m \in 1 .. Len(frameOps) : frameOps[m].op = "commit" }

ImageOfPlane(k) == IF num_planes > 1 /\ p_num_images = 1 THEN 0 ELSE k

\* The release loop of mapper_unmap has run to its end.
ReleaseLoopDone == pc \in {"unmap_lock2", "unmap_commit", "unmap_unlock2"}

\* C17 (as claimed): in the Export of a mapped session every plane that
\* holds a wrapped texture gets a pl_vulkan_hold_ex call of its own, with
\* the reserved value as signal value: planes 1 and 2 of a frame whose
\* planes share image 0 included.
C17_EveryPlaneReleased ==
    (pre_vkf /\ ReleaseLoopDone) =>
        \A k \in Idx :
            pre_tex[k] =>
                \E n \in 1 .. Len(holdCalls) :
                    /\ holdCalls[n].plane = k
                    /\ holdCalls[n].value = reserved_sem_value[ImageOfPlane(k)]

\* C17 (amended): in the Export of a mapped session pl_vulkan_hold_ex is
\* called once per touched image, for the first plane that maps to it, with
\* the value reserved for that image as signal value; once the release loop
\* has run every touched image has had its call, and the other planes that
\* share the image (planes 1 and 2 of a shared-image frame) get none.
C17_OneReleasePerImage ==
    pre_vkf =>
        /\ \A n \in 1 .. Len(holdCalls) :
              LET h == holdCalls[n] IN
              /\ pre_tex[h.plane]
              /\ h.index = ImageOfPlane(h.plane)
              /\ \A k \in Idx :
                    (pre_tex[k] /\ ImageOfPlane(k) = h.index) => h.plane <= k
              /\ h.index < p_num_images =>
                    h.value = pre_sem_value[h.index] + 1
              /\ \A m \in 1 .. Len(holdCalls) :
                    holdCalls[m].index = h.index => m = n
        /\ ReleaseLoopDone =>
              \A k \in Idx :
                  pre_tex[k] =>
                      \E n \in 1 .. Len(holdCalls) :
                          holdCalls[n].index = ImageOfPlane(k)

C17_Witness ==
    /\ pre_vkf
    /\ pc = "unmap_lock2"
    /\ num_planes = 3
    /\ p_num_images = 1
    /\ pre_tex[1] /\ pre_tex[2]
    /\ ~p_tex[1] /\ ~p_tex[2]
    /\ Len(holdCalls) = 1
    /\ holdCalls[1].plane = 0


\* C18: after the Export of a mapped session, every touched image whose
\* release succeeded has in the frame the layout pl_vulkan_hold_ex reported,
\* and the access flag of every image of the frame is cleared, whether the
\* image was touched or not and whether its release succeeded or failed.
C18_CommitLayoutAndAccess ==
    (pre_vkf /\ ExportEnded) =>
        /\ \A n \in ImageHolds :
              holdCalls[n].result # 0 =>
                  vkf_layout[holdCalls[n].index] = holdCalls[n].result
        /\ \A k \in Idx : vkf_img[k] # 0 => vkf_access[k] = 0


\* The accesses to the frame made by the named block of the current call.
OpsOf(op) == { m \in 1 .. Len(frameOps) : frameOps[m].op = op }

\* C19: Import reads its snapshot of the frame inside exactly one
\* lock_frame/unlock_frame pair; the Export of a mapped session increments
\* inside exactly one pair and commits inside exactly one other pair; the
\* frame lock is never held during a pl_vulkan_wrap or pl_vulkan_hold_ex
\* call, nor when Import or Export has returned.
C19_FrameLockDiscipline ==
    /\ \A m \in 1 .. Len(frameOps) : frameOps[m].locked
    /\ \A m \in OpsOf("snapshot") :
          frameOps[m].locks = 1 /\ frameOps[m].unlocks = 0
    /\ (pc = "map_plane" \/ (pc = "idle" /\ lastOp = "map_ok")) =>
          /\ Cardinality(OpsOf("snapshot")) = 1
          /\ lockCalls = 1 /\ unlockCalls = 1
    /\ \A m \in OpsOf("reserve") :
          frameOps[m].locks = 1 /\ frameOps[m].unlocks = 0
    /\ \A m \in OpsOf("commit") :
          frameOps[m].locks = 2 /\ frameOps[m].unlocks = 1
    /\ (pre_vkf /\ pc = "idle" /\ lastOp = "unmap") =>
          /\ Cardinality(OpsOf("reserve")) = 1
          /\ Cardinality(OpsOf("commit")) = 1
          /\ lockCalls = 2 /\ unlockCalls = 2
    /\ \A n \in 1 .. Len(wrapCalls) : ~wrapCalls[n].locked
    /\ \A n \in 1 .. Len(holdCalls) : ~holdCalls[n].locked
    /\ pc \in {"idle", "crashed"} => frameLock = "free"

C19_Witness ==
    /\ pre_vkf
    /\ pc = "idle"
    /\ lastOp = "unmap"
    /\ frameLock = "free"
    /\ lockCalls = 2
    /\ unlockCalls = 2
    /\ Len(frameOps) = 2
    /\ frameOps[2].op = "commit"
    /\ Len(holdCalls) = 2


\* C20 (as claimed): whenever the frame has more planes than images (two or
\* three images included) every plane maps to image 0 with its own aspect,
\* in Import's wrap calls and in Export's release calls; otherwise plane i
\* maps to image i.
C20_MorePlanesThanImagesShare ==
    /\ \A n \in 1 .. Len(wrapCalls) :
          LET w == wrapCalls[n] IN
          IF num_planes > p_num_images
          THEN w.index = 0 /\ w.aspect = PlaneAspect(w.plane)
          ELSE w.index = w.plane /\ w.aspect = "COLOR"
    /\ \A n \in 1 .. Len(holdCalls) :
          LET h == holdCalls[n] IN
          IF num_planes > p_num_images
          THEN h.index = 0
          ELSE h.index = h.plane

\* C20 (amended): a frame with more than one plane and exactly one image
\* maps every wrapped plane to image 0 with its own aspect; any other frame,
\* a frame with more planes than images on two or three images included,
\* maps plane i to image i with the color aspect, in Import's wrap calls and
\* in Export's release calls alike.
C20_OnlySingleImageShares ==
    LET shared == num_planes > 1 /\ p_num_images = 1 IN
    /\ \A n \in 1 .. Len(wrapCalls) :
          LET w == wrapCalls[n] IN
          IF shared
          THEN /\ w.index = 0
               /\ w.aspect = PlaneAspect(w.plane)
               /\ \A m \in 1 .. Len(wrapCalls) :
                     wrapCalls[m].aspect = w.aspect => m = n
          ELSE w.index = w.plane /\ w.aspect = "COLOR"
    /\ \A n \in 1 .. Len(holdCalls) :
          LET h == holdCalls[n] IN
          IF shared THEN h.index = 0 ELSE h.index = h.plane
    /\ (pre_vkf /\ ReleaseLoopDone /\ ~shared) =>
          \A k \in Idx :
              pre_tex[k] =>
                  \E n \in 1 .. Len(holdCalls) :
                      holdCalls[n].plane = k /\ holdCalls[n].index = k

C20_Witness ==
    /\ pre_vkf
    /\ num_planes = 3
    /\ p_num_images = 2
    /\ ReleaseLoopDone
    /\ \E n \in 1 .. Len(holdCalls) :
          holdCalls[n].plane = 2 /\ holdCalls[n].index = 2


\* Import has wrapped three planes: the plane loop is at plane 3, or the
\* unwind that followed has run to its end.
ReachedFourthPlane ==
    /\ Len(wrapCalls) = 3
    /\ mapper_tex[2] \/ pc = "idle"

\* C21: for a frame whose 4 planes share one image, Import never succeeds:
\* it wraps no texture for plane 3, and once it has failed it has returned
\* with the textures wrapped for planes 0..2 released and freed.
C21_FourthSharedPlaneFails ==
    (num_planes = 4 /\ CountImages(vkf_img) = 1) =>
        /\ lastOp # "map_ok"
        /\ \A n \in 1 .. Len(wrapCalls) : wrapCalls[n].plane # 3
        /\ (ImportFailed /\ ReachedFourthPlane) =>
              /\ pc = "idle"
              /\ \A k \in Idx : ~p_tex[k] /\ ~mapper_tex[k]


\* The native queue locks thread t holds.
NativeHeldBy(t) == { q \in Queues : queue_lock[q] = t }

\* C22: lock_queue takes the guard's mutex first and the backend's queue
\* lock second; unlock_queue releases the backend's queue lock first and the
\* mutex second; so a guard caller holds a native queue lock only while it
\* holds the mutex.
C22_GuardCallOrder ==
    \A t \in Decoders :
        /\ NativeHeldBy(t) # {} => mutex = t
        /\ tpc[t] = "lock_native" => (mutex = t /\ NativeHeldBy(t) = {})
        /\ tpc[t] = "submitting" => (mutex = t /\ NativeHeldBy(t) = {tq[t]})
        /\ tpc[t] = "unlock_mutex" => (mutex = t /\ NativeHeldBy(t) = {})
        /\ tpc[t] = "idle" => (mutex # t /\ NativeHeldBy(t) = {})

C22_Witness ==
    \E t \in Decoders, r \in Renderers :
        /\ tpc[t] = "unlock_mutex"
        /\ mutex = t
        /\ queue_lock[tq[t]] = r


\* C23: whatever the interleaving of the Exports and the other users of one
\* frame, and whichever releases fail, the values reserved for one image's
\* semaphore are strictly increasing in frame-lock acquisition order, so no
\* value is reserved or promised twice.
C23_ReservedValuesIncrease ==
    \A a, b \in 1 .. Len(reserve_log) :
        (a < b /\ reserve_log[a].image = reserve_log[b].image) =>
            reserve_log[a].value < reserve_log[b].value


\* mapper_unmap is at the head of one of its two loops over p->tex: the
\* loop condition reads p->tex[i] next.
AtTexLoop == pc \in {"unmap_scan", "unmap_hold"}

\* C24: every index mapper_unmap uses to read p->tex, and every index it
\* derives from it for will_process, processed, ok, new_layout,
\* reserved_sem_value and p->sem, lies in 0..3, for sessions with up to four
\* wrapped planes; the loops over the textures end within four iterations.
C24_ExportIndicesInBounds ==
    AtTexLoop =>
        /\ i \in Idx
        /\ ExportIndex(num_planes, p_num_images, i) \in Idx


\* Image k of the frame has no wrapped plane of the exported session
\* mapped to it.
Untouched(k) ==
    /\ k < p_num_images
    /\ \A j \in Idx : pre_tex[j] => ImageOfPlane(j) # k

\* C25: the Export of a mapped session never changes the counter or the
\* layout of an image of the frame that none of its wrapped planes maps to,
\* and when it has ended that image's access flag is cleared.
C25_UntouchedImagesKept ==
    pre_vkf =>
        \A k \in Idx :
            Untouched(k) =>
                /\ vkf_sem_value[k] = pre_sem_value[k]
                /\ vkf_layout[k] = pre_layout[k]
                /\ ExportEnded => vkf_access[k] = 0

C25_Witness ==
    /\ pre_vkf
    /\ pc = "idle"
    /\ lastOp = "unmap"
    /\ num_planes = 1
    /\ p_num_images = 3
    /\ Untouched(2)
    /\ pre_access[2] = 1
    /\ vkf_access[2] = 0
    /\ vkf_sem_value[0] = pre_sem_value[0] + 1
    /\ vkf_sem_value[2] = pre_sem_value[2]


\* Thread t is inside a call or holds a queue, and its next step is not
\* blocked.
CanStep(t) ==
    \/ tpc[t] = "lock_mutex" /\ mutex = 0
    \/ tpc[t] = "lock_native" /\ queue_lock[tq[t]] = 0
    \/ tpc[t] \in {"submitting", "unlock_mutex", "rendering"}

\* No state has every thread that is inside a call blocked while nobody
\* holds anything that a step would release.
NoGuardDeadlock ==
    /\ (\E t \in Threads : tpc[t] # "idle") => (\E t \in Threads : CanStep(t))
    /\ mutex # 0 => tpc[mutex] \in {"lock_native", "submitting", "unlock_mutex"}
    /\ \A q \in Queues :
          queue_lock[q] # 0 => tpc[queue_lock[q]] \in {"submitting", "rendering"}

C27_RealtimeNormalized ==
    time_pc = "returned" => (0 <= ts[2] /\ ts[2] < NsPerSec)

====
